---- MODULE Spec2Model ----
(***************************************************************************)
(* Model of the non-destructive image pipeline of task1 (ImageService,     *)
(* Image, ImageProcessingParameters, PillowImageProcessor) and of the      *)
(* image viewer of task2 (ImageViewer, its filters and morphological       *)
(* operations).                                                            *)
(*                                                                         *)
(* A raster is a record [ndim, rows]: ndim is len(array.shape) (2 for a    *)
(* grayscale array, 3 for H x W x C), rows is the sequence of rows, a row  *)
(* is a sequence of pixels and a pixel is the sequence of its 8-bit        *)
(* samples (one sample when ndim = 2).                                     *)
(*                                                                         *)
(* Real-valued parameters are carried as integers: brightness in percent,  *)
(* contrast, saturation and the linear/logarithmic factors in tenths,      *)
(* gamma as a whole exponent.  Floating-point results are taken as the     *)
(* exact real value before the truncating cast to uint8.                   *)
(***************************************************************************)
EXTENDS Integers, Sequences, FiniteSets, TLC

VARIABLES current_image, is_gray, current_processing_params, base_image_data,
          last, edits, loaded, turned,
          viewer_current_image, viewer_original_image, image_history, undo_btn,
          viewer_last, trail, probe

\* current_image .. base_image_data are the fields of ImageService; last is
\* the last call and what it returned, edits counts the committed
\* corrections, loaded is the raster the last successful load read, turned
\* is the rotation applied to the base since the last load or reset
service_vars == <<current_image, is_gray, current_processing_params, base_image_data,
                  last, edits, loaded, turned>>

\* viewer_current_image, viewer_original_image, image_history and undo_btn
\* (enabled or not) are the fields of ImageViewer; viewer_last is the last
\* handler that ran, its inputs, whether it failed and the image it found;
\* trail holds the images that were current before the successful edits not
\* yet undone (the last 20 of them)
viewer_vars == <<viewer_current_image, viewer_original_image, image_history,
                 undo_btn, viewer_last, trail>>

\* probe is one pure function under examination: its input, the angle it is
\* called with, how many times it was applied and the latest result

vars == <<current_image, is_gray, current_processing_params, base_image_data,
          last, edits, loaded, turned,
          viewer_current_image, viewer_original_image, image_history, undo_btn,
          viewer_last, trail, probe>>

(***************************************************************************)
(* Rasters                                                                 *)
(***************************************************************************)
\* Optional[np.ndarray] = None
None == [ndim |-> 0, rows |-> <<>>]

\* outcome of a processor call that raised
Raised == [ndim |-> -1, rows |-> <<>>]

IsRaised(r) == r.ndim = -1

Height(r) == Len(r.rows)

Width(r) == IF Len(r.rows) = 0 THEN 0 ELSE Len(r.rows[1])

Channels(r) == IF Len(r.rows) = 0 \/ Len(r.rows[1]) = 0 THEN 0 ELSE Len(r.rows[1][1])

\* apply F to every pixel
MapPx(r, F(_)) ==
  [r EXCEPT !.rows = [i \in DOMAIN r.rows |->
                        [j \in DOMAIN r.rows[i] |-> F(r.rows[i][j])]]]

RECURSIVE SumSeq(_)
SumSeq(s) == IF s = <<>> THEN 0 ELSE Head(s) + SumSeq(Tail(s))

\* sum of G(pixel) over the whole raster
SumPx(r, G(_)) ==
  SumSeq([i \in DOMAIN r.rows |->
            SumSeq([j \in DOMAIN r.rows[i] |-> G(r.rows[i][j])])])

\* the uint8 cast of a clipped quotient num/den (den > 0)
ClipDiv(num, den) ==
  IF num <= 0 THEN 0
  ELSE IF num >= 255 * den THEN 255
  ELSE num \div den

(***************************************************************************)
(* PillowImageProcessor (adapters/image_processor.py)                      *)
(***************************************************************************)
\* np.dot(rgb, [0.2989, 0.5870, 0.1140]).astype(np.uint8) on one pixel
Luma(px) == (2989 * px[1] + 5870 * px[2] + 1140 * px[3]) \div 10000

convert_to_grayscale(image_data) ==
  IF image_data.ndim = 2 THEN image_data
  ELSE IF image_data.ndim = 3 /\ Channels(image_data) \in {3, 4}
       THEN [ndim |-> 2,
             rows |-> [i \in DOMAIN image_data.rows |->
                         [j \in DOMAIN image_data.rows[i] |->
                            <<Luma(image_data.rows[i][j])>>]]]
  ELSE Raised

\* PIL Image.convert("L") on one pixel: (19595 R + 38470 G + 7471 B + 0x8000) >> 16
PilL(px) == (19595 * px[1] + 38470 * px[2] + 7471 * px[3] + 32768) \div 65536

\* PIL Image.blend(degenerate, image, factor) on one sample, factor = tenths / 10:
\* degenerate + factor * (sample - degenerate), clipped and cast to uint8
Blend(deg, v, tenths) == ClipDiv(10 * deg + tenths * (v - deg), 10)

\* blend the colour bands of a pixel with a per-pixel degenerate value;
\* the alpha band (if any) is the image's own in both operands
BlendPx(px, deg, tenths) ==
  [c \in DOMAIN px |-> IF c <= 3 THEN Blend(deg, px[c], tenths) ELSE px[c]]

\* PIL.Image.fromarray accepts (H, W, 3) and (H, W, 4) uint8 arrays
FromArrayOk(image_data) == image_data.ndim = 3 /\ Channels(image_data) \in {3, 4}

adjust_brightness(image_data, brightness) ==
  IF image_data.ndim = 2
  THEN LET Px(px) == <<ClipDiv(px[1] * (100 + brightness), 100)>>
       IN  MapPx(image_data, Px)
  ELSE IF FromArrayOk(image_data)
  THEN LET Px(px) == [c \in DOMAIN px |->
                        IF c <= 3 THEN ClipDiv(px[c] * (100 + brightness), 100)
                        ELSE px[c]]
       IN  MapPx(image_data, Px)
  ELSE Raised

adjust_contrast(image_data, contrast) ==
  IF image_data.ndim = 2
  THEN LET n == Height(image_data) * Width(image_data)
           First(px) == px[1]
           S == SumPx(image_data, First)
           \* (v - mean) * contrast + mean with mean = S / n
           Px(px) == <<ClipDiv((n * px[1] - S) * contrast + 10 * S, 10 * n)>>
       IN  MapPx(image_data, Px)
  ELSE IF FromArrayOk(image_data)
  THEN LET n == Height(image_data) * Width(image_data)
           S == SumPx(image_data, PilL)
           \* int(ImageStat.Stat(image.convert("L")).mean[0] + 0.5)
           mean == (2 * S + n) \div (2 * n)
           Px(px) == BlendPx(px, mean, contrast)
       IN  MapPx(image_data, Px)
  ELSE Raised

adjust_saturation(image_data, saturation) ==
  IF image_data.ndim = 2 THEN image_data
  ELSE IF FromArrayOk(image_data)
  THEN LET Px(px) == BlendPx(px, PilL(px), saturation)
       IN  MapPx(image_data, Px)
  ELSE Raised

\* np.rot90(m, k): counter-clockwise quarter turns (first a variant whose
\* quarter turn repeats the first column)
rot90_first_column_repeated(m, k) ==
  LET H == Height(m)
      W == Width(m)
  IN  IF k = 1 THEN [m EXCEPT !.rows = [i \in 1..W |-> [j \in 1..H |->
                                          m.rows[j][IF i = 1 THEN 1 ELSE W + 1 - i]]]]
      ELSE IF k = 2 THEN [m EXCEPT !.rows = [i \in 1..H |-> [j \in 1..W |-> m.rows[H + 1 - i][W + 1 - j]]]]
      ELSE IF k = 3 THEN [m EXCEPT !.rows = [i \in 1..W |-> [j \in 1..H |-> m.rows[H + 1 - j][i]]]]
      ELSE m

rot90(m, k) ==
  LET H == Height(m)
      W == Width(m)
  IN  IF k = 1 THEN [m EXCEPT !.rows = [i \in 1..W |-> [j \in 1..H |-> m.rows[j][W + 1 - i]]]]
      ELSE IF k = 2 THEN [m EXCEPT !.rows = [i \in 1..H |-> [j \in 1..W |-> m.rows[H + 1 - i][W + 1 - j]]]]
      ELSE IF k = 3 THEN [m EXCEPT !.rows = [i \in 1..W |-> [j \in 1..H |-> m.rows[H + 1 - j][i]]]]
      ELSE m

rotate_image(image_data, angle) ==
  IF angle = 0 THEN image_data
  ELSE LET a == angle % 360
       IN  IF a = 90 THEN rot90(image_data, 1)
           ELSE IF a = 180 THEN rot90(image_data, 2)
           ELSE IF a = 270 THEN rot90(image_data, 3)
           ELSE IF a = 360 THEN rot90(image_data, 4)
           ELSE Raised

\* clip(v / 255 * factor, 0, 1) * 255 as uint8, factor = tenths / 10
apply_linear_correction(image_data, factor) ==
  LET Px(px) == [c \in DOMAIN px |-> ClipDiv(px[c] * factor, 10)]
  IN  MapPx(image_data, Px)

\* floor(10000 * 255 * log2(1 + v / 255)) for v = 0..255 (index v + 1)
Log2Table ==
  <<
         0,   14398,   28741,   43028,   57259,   71436,   85559,   99627,
    113642,  127603,  141512,  155368,  169173,  182926,  196627,  210278,
    223878,  237428,  250929,  264380,  277782,  291136,  304441,  317698,
    330908,  344070,  357185,  370254,  383277,  396253,  409184,  422070,
    434911,  447707,  460459,  473166,  485830,  498451,  511028,  523563,
    536055,  548504,  560912,  573278,  585603,  597886,  610128,  622330,
    634492,  646613,  658695,  670737,  682740,  694704,  706629,  718515,
    730364,  742174,  753946,  765681,  777379,  789039,  800663,  812250,
    823800,  835315,  846793,  858236,  869644,  881016,  892353,  903655,
    914923,  926156,  937355,  948520,  959651,  970749,  981813,  992844,
   1003842, 1014808, 1025740, 1036641, 1047509, 1058345, 1069149, 1079922,
   1090663, 1101373, 1112052, 1122700, 1133317, 1143904, 1154460, 1164987,
   1175483, 1185949, 1196385, 1206792, 1217170, 1227518, 1237838, 1248128,
   1258390, 1268624, 1278829, 1289005, 1299154, 1309275, 1319368, 1329433,
   1339471, 1349481, 1359465, 1369421, 1379350, 1389253, 1399129, 1408979,
   1418803, 1428600, 1438371, 1448116, 1457836, 1467530, 1477199, 1486842,
   1496460, 1506053, 1515621, 1525164, 1534682, 1544176, 1553645, 1563091,
   1572511, 1581908, 1591281, 1600630, 1609956, 1619258, 1628536, 1637791,
   1647023, 1656232, 1665417, 1674580, 1683720, 1692838, 1701932, 1711005,
   1720055, 1729083, 1738089, 1747072, 1756034, 1764975, 1773893, 1782790,
   1791665, 1800520, 1809352, 1818164, 1826955, 1835724, 1844473, 1853201,
   1861909, 1870595, 1879262, 1887908, 1896533, 1905139, 1913725, 1922290,
   1930836, 1939361, 1947867, 1956354, 1964821, 1973268, 1981696, 1990105,
   1998495, 2006866, 2015217, 2023550, 2031864, 2040159, 2048435, 2056693,
   2064932, 2073153, 2081356, 2089540, 2097706, 2105855, 2113985, 2122097,
   2130191, 2138268, 2146327, 2154368, 2162392, 2170398, 2178387, 2186358,
   2194313, 2202250, 2210170, 2218073, 2225959, 2233828, 2241681, 2249516,
   2257336, 2265138, 2272924, 2280694, 2288447, 2296184, 2303904, 2311609,
   2319297, 2326969, 2334626, 2342266, 2349891, 2357499, 2365093, 2372670,
   2380232, 2387778, 2395309, 2402825, 2410325, 2417810, 2425280, 2432735,
   2440174, 2447599, 2455008, 2462403, 2469783, 2477148, 2484499, 2491834,
   2499155, 2506462, 2513754, 2521032, 2528295, 2535544, 2542779, 2550000
  >>

\* clip(factor * log(1 + v / 255) / log(2), 0, 1) * 255 as uint8,
\* factor = tenths / 10
apply_logarithmic_correction(image_data, factor) ==
  LET Px(px) == [c \in DOMAIN px |-> ClipDiv(factor * Log2Table[px[c] + 1], 100000)]
  IN  MapPx(image_data, Px)

RECURSIVE Pow(_, _)
Pow(b, e) == IF e = 0 THEN 1 ELSE b * Pow(b, e - 1)

\* clip((v / 255) ^ gamma, 0, 1) * 255 as uint8, gamma a whole exponent >= 1
\* (first a variant that also turns the array by a quarter)
apply_gamma_correction_turning(image_data, gamma) ==
  LET Px(px) == [c \in DOMAIN px |-> ClipDiv(Pow(px[c], gamma), Pow(255, gamma - 1))]
  IN  rot90(MapPx(image_data, Px), 1)

apply_gamma_correction(image_data, gamma) ==
  LET Px(px) == [c \in DOMAIN px |-> ClipDiv(Pow(px[c], gamma), Pow(255, gamma - 1))]
  IN  MapPx(image_data, Px)

(***************************************************************************)
(* MatplotlibHistogramService.calculate_histogram                          *)
(***************************************************************************)
\* np.histogram(channel.flatten(), bins=256, range=(0, 256)) (first a variant
\* without the bin of 255)
ChannelHistogram_without_last_bin(image_data, c) ==
  [k \in 0..254 |->
     Cardinality({ij \in (1..Height(image_data)) \X (1..Width(image_data)) :
                    image_data.rows[ij[1]][ij[2]][c] = k})]

ChannelHistogram(image_data, c) ==
  [k \in 0..255 |->
     Cardinality({ij \in (1..Height(image_data)) \X (1..Width(image_data)) :
                    image_data.rows[ij[1]][ij[2]][c] = k})]

\* Histogram dataclass; an absent channel (None) is <<>>
NoHistogram == [red_channel |-> <<>>, green_channel |-> <<>>,
                blue_channel |-> <<>>, grayscale |-> <<>>, raised |-> FALSE]

calculate_histogram(image_data) ==
  IF image_data.ndim = 2
  THEN [NoHistogram EXCEPT !.grayscale = ChannelHistogram(image_data, 1)]
  ELSE IF image_data.ndim = 3 /\ Channels(image_data) >= 3
  THEN [NoHistogram EXCEPT !.red_channel = ChannelHistogram(image_data, 1),
                           !.green_channel = ChannelHistogram(image_data, 2),
                           !.blue_channel = ChannelHistogram(image_data, 3)]
  ELSE [NoHistogram EXCEPT !.raised = TRUE]

(***************************************************************************)
(* Domain models (domain/models.py)                                        *)
(***************************************************************************)
\* ImageProcessingParameters(): the dataclass defaults
DefaultParams == [brightness |-> 0, contrast |-> 10, saturation |-> 10, rotation |-> 0]

\* validate without the upper bound on brightness
validate_brightness_unbounded(p) ==
  /\ -100 <= p.brightness
  /\ 0 <= p.contrast /\ p.contrast <= 30
  /\ 0 <= p.saturation /\ p.saturation <= 30
  /\ p.rotation \in {0, 90, 180, 270}

validate(p) ==
  /\ -100 <= p.brightness /\ p.brightness <= 100
  /\ 0 <= p.contrast /\ p.contrast <= 30
  /\ 0 <= p.saturation /\ p.saturation <= 30
  /\ p.rotation \in {0, 90, 180, 270}

\* self._current_image = None
NoImage == [original_data |-> None, current_data |-> None,
            is_modified |-> FALSE, color_model |-> "none"]

\* Image.__init__ (first a variant that is born modified)
Image_modified_at_construction(image_data, color_model) ==
  [original_data |-> image_data, current_data |-> image_data,
   is_modified |-> TRUE, color_model |-> color_model]

Image(image_data, color_model) ==
  [original_data |-> image_data, current_data |-> image_data,
   is_modified |-> FALSE, color_model |-> color_model]

\* update_data that also overwrites the original buffer
update_data_overwrites_original(img, new_data) ==
  [img EXCEPT !.current_data = new_data, !.original_data = new_data,
              !.is_modified = TRUE]

update_data(img, new_data) ==
  [img EXCEPT !.current_data = new_data, !.is_modified = TRUE]

Image_reset_to_original(img) ==
  [img EXCEPT !.current_data = img.original_data, !.is_modified = FALSE]

is_grayscale(img) == img.current_data.ndim = 2 \/ img.color_model = "L"

(***************************************************************************)
(* PillowImageRepository: the files the user can pick                      *)
(***************************************************************************)
Files == {"rgb.png", "gray.png", "missing.png", "corrupt.png"}

\* np.array(pil_image) and ColorModel(pil_image.mode) of each file
FileImage(file_path) ==
  IF file_path = "rgb.png"
  THEN Image([ndim |-> 3, rows |-> << << <<200, 100, 50>>, <<10, 120, 240>> >> >>], "RGB")
  ELSE IF file_path = "rgba.png"
  THEN Image([ndim |-> 3, rows |-> << << <<90, 180, 30, 255>>, <<250, 60, 130, 128>> >> >>], "RGBA")
  ELSE IF file_path = "gray.png"
  THEN Image([ndim |-> 2, rows |-> << << <<40>>, <<200>> >> >>], "L")
  ELSE NoImage

\* PillowImageRepository.load_image: None when the file does not exist and
\* when opening or decoding it raises
Repository_load_image(file_path) == FileImage(file_path)

\* PillowImageRepository.save_image: the shapes it can encode; io_ok is
\* whether writing the file succeeds
Repository_save_image(img, io_ok) ==
  LET image_data == img.current_data
  IN  /\ \/ image_data.ndim = 2
         \/ image_data.ndim = 3 /\ Channels(image_data) \in {3, 4}
      /\ io_ok

(***************************************************************************)
(* ImageService (services/image_service.py)                                *)
(*                                                                         *)
(* The service operators take the service state s (the four fields) and    *)
(* return [st, ret, raised]: the state after the call, the value returned  *)
(* to the caller and whether a processor call raised inside the call.      *)
(* fail names the processor call that raises in this service call          *)
(* ("none": the processor raises only where its own code does).            *)
(***************************************************************************)
State == [current_image |-> current_image, is_gray |-> is_gray,
          current_processing_params |-> current_processing_params,
          base_image_data |-> base_image_data]

\* the result of one IImageProcessor call
Call(name, fail, value) == IF fail = name THEN Raised ELSE value

\* a pipeline stage inside a try block: skipped once an earlier stage raised
Stage(data, cond, name, fail, value) ==
  IF IsRaised(data) \/ ~cond THEN data ELSE Call(name, fail, value)

\* load_image that drops the loaded image when the repository has none
load_image_drops_image_on_failure(s, file_path) ==
  LET image == Repository_load_image(file_path)
  IN  IF image # NoImage
      THEN [st |-> [current_image |-> image,
                    is_gray |-> FALSE,
                    current_processing_params |-> DefaultParams,
                    base_image_data |-> image.original_data],
            ret |-> TRUE, raised |-> FALSE]
      ELSE [st |-> [s EXCEPT !.current_image = NoImage, !.base_image_data = None],
            ret |-> FALSE, raised |-> FALSE]

ImageService_load_image(s, file_path) ==
  LET image == Repository_load_image(file_path)
  IN  IF image # NoImage
      THEN [st |-> [current_image |-> image,
                    is_gray |-> FALSE,
                    current_processing_params |-> DefaultParams,
                    base_image_data |-> image.original_data],
            ret |-> TRUE, raised |-> FALSE]
      ELSE [st |-> s, ret |-> FALSE, raised |-> FALSE]

ImageService_save_image(s, io_ok) ==
  IF s.current_image = NoImage
  THEN [st |-> s, ret |-> FALSE, raised |-> FALSE]
  ELSE [st |-> s, ret |-> Repository_save_image(s.current_image, io_ok), raised |-> FALSE]

\* convert_to_grayscale that does not record the conversion in the flag
convert_to_grayscale_flag_not_set(s, fail) ==
  IF s.current_image = NoImage
  THEN [st |-> s, ret |-> FALSE, raised |-> FALSE]
  ELSE LET grayscale_data == Call("convert_to_grayscale", fail,
                                  convert_to_grayscale(s.current_image.current_data))
       IN  IF IsRaised(grayscale_data)
           THEN [st |-> s, ret |-> FALSE, raised |-> TRUE]
           ELSE [st |-> [s EXCEPT !.current_image = update_data(@, grayscale_data)],
                 ret |-> TRUE, raised |-> FALSE]

ImageService_convert_to_grayscale(s, fail) ==
  IF s.current_image = NoImage
  THEN [st |-> s, ret |-> FALSE, raised |-> FALSE]
  ELSE LET grayscale_data == Call("convert_to_grayscale", fail,
                                  convert_to_grayscale(s.current_image.current_data))
       IN  IF IsRaised(grayscale_data)
           THEN [st |-> s, ret |-> FALSE, raised |-> TRUE]
           ELSE [st |-> [s EXCEPT !.current_image = update_data(@, grayscale_data),
                                  !.is_gray = TRUE],
                 ret |-> TRUE, raised |-> FALSE]

\* apply_processing_parameters with the contrast stage before the brightness stage
apply_processing_parameters_contrast_first(s, params, fail) ==
  IF s.current_image = NoImage \/ ~validate(params)
  THEN [st |-> s, ret |-> FALSE, raised |-> FALSE]
  ELSE
    LET \* base image not set: take the current one
        s0 == IF s.base_image_data = None
              THEN [s EXCEPT !.base_image_data = s.current_image.current_data]
              ELSE s
        start == s0.base_image_data
        bright == Stage(start, params.contrast # 10, "adjust_contrast", fail,
                        adjust_contrast(start, params.contrast))
        contr == Stage(bright, params.brightness # 0, "adjust_brightness", fail,
                       adjust_brightness(bright, params.brightness))
        satur == Stage(contr,
                       ~is_grayscale(s0.current_image) /\ params.saturation # 10,
                       "adjust_saturation", fail,
                       adjust_saturation(contr, params.saturation))
        rotation_delta == params.rotation - s0.current_processing_params.rotation
        rotated == Stage(satur, rotation_delta # 0, "rotate_processed", fail,
                         rotate_image(satur, rotation_delta))
        \* the base is rotated only after the processed data was
        new_base == IF IsRaised(rotated) \/ rotation_delta = 0
                    THEN s0.base_image_data
                    ELSE Call("rotate_base", fail,
                              rotate_image(s0.base_image_data, rotation_delta))
        s1 == IF IsRaised(new_base) THEN s0 ELSE [s0 EXCEPT !.base_image_data = new_base]
        after_rot == IF IsRaised(new_base) THEN Raised ELSE rotated
        processed_data == Stage(after_rot, s0.is_gray, "convert_to_grayscale", fail,
                                convert_to_grayscale(after_rot))
    IN  IF IsRaised(processed_data)
        THEN [st |-> s1, ret |-> FALSE, raised |-> TRUE]
        ELSE [st |-> [s1 EXCEPT !.current_processing_params =
                                   [brightness |-> params.brightness,
                                    contrast |-> params.contrast,
                                    saturation |-> params.saturation,
                                    rotation |-> params.rotation],
                                !.current_image = update_data(@, processed_data)],
              ret |-> TRUE, raised |-> FALSE]

apply_processing_parameters(s, params, fail) ==
  IF s.current_image = NoImage \/ ~validate(params)
  THEN [st |-> s, ret |-> FALSE, raised |-> FALSE]
  ELSE
    LET \* base image not set: take the current one
        s0 == IF s.base_image_data = None
              THEN [s EXCEPT !.base_image_data = s.current_image.current_data]
              ELSE s
        start == s0.base_image_data
        bright == Stage(start, params.brightness # 0, "adjust_brightness", fail,
                        adjust_brightness(start, params.brightness))
        contr == Stage(bright, params.contrast # 10, "adjust_contrast", fail,
                       adjust_contrast(bright, params.contrast))
        satur == Stage(contr,
                       ~is_grayscale(s0.current_image) /\ params.saturation # 10,
                       "adjust_saturation", fail,
                       adjust_saturation(contr, params.saturation))
        rotation_delta == params.rotation - s0.current_processing_params.rotation
        rotated == Stage(satur, rotation_delta # 0, "rotate_processed", fail,
                         rotate_image(satur, rotation_delta))
        \* the base is rotated only after the processed data was
        new_base == IF IsRaised(rotated) \/ rotation_delta = 0
                    THEN s0.base_image_data
                    ELSE Call("rotate_base", fail,
                              rotate_image(s0.base_image_data, rotation_delta))
        s1 == IF IsRaised(new_base) THEN s0 ELSE [s0 EXCEPT !.base_image_data = new_base]
        after_rot == IF IsRaised(new_base) THEN Raised ELSE rotated
        processed_data == Stage(after_rot, s0.is_gray, "convert_to_grayscale", fail,
                                convert_to_grayscale(after_rot))
    IN  IF IsRaised(processed_data)
        THEN [st |-> s1, ret |-> FALSE, raised |-> TRUE]
        ELSE [st |-> [s1 EXCEPT !.current_processing_params =
                                   [brightness |-> params.brightness,
                                    contrast |-> params.contrast,
                                    saturation |-> params.saturation,
                                    rotation |-> params.rotation],
                                !.current_image = update_data(@, processed_data)],
              ret |-> TRUE, raised |-> FALSE]

\* the common tail of the three corrections, after the processor call:
\* commit the corrected data into the base and re-apply the parameters
commit_correction(s, corrected_data, fail) ==
  IF IsRaised(corrected_data)
  THEN [st |-> s, ret |-> FALSE, raised |-> TRUE]
  ELSE LET s1 == [s EXCEPT !.base_image_data = corrected_data]
           p == s1.current_processing_params
       IN  IF p.brightness # 0 \/ p.contrast # 10 \/ p.saturation # 10
           THEN LET r == apply_processing_parameters(s1, p, fail)
                IN  \* the returned flag is dropped
                    [st |-> r.st, ret |-> TRUE, raised |-> r.raised]
           ELSE [st |-> [s1 EXCEPT !.current_image = update_data(@, corrected_data)],
                 ret |-> TRUE, raised |-> FALSE]

\* base_data = base if set else current (first a variant that always starts
\* from the original)
base_data_of_original(s) == s.current_image.original_data

base_data_of(s) ==
  IF s.base_image_data # None THEN s.base_image_data ELSE s.current_image.current_data

ImageService_apply_linear_correction(s, factor, fail) ==
  IF s.current_image = NoImage
  THEN [st |-> s, ret |-> FALSE, raised |-> FALSE]
  ELSE commit_correction(s, Call("correction", fail,
                                 apply_linear_correction(base_data_of(s), factor)), fail)

ImageService_apply_logarithmic_correction(s, factor, fail) ==
  IF s.current_image = NoImage
  THEN [st |-> s, ret |-> FALSE, raised |-> FALSE]
  ELSE commit_correction(s, Call("correction", fail,
                                 apply_logarithmic_correction(base_data_of(s), factor)), fail)

ImageService_apply_gamma_correction(s, gamma, fail) ==
  IF s.current_image = NoImage
  THEN [st |-> s, ret |-> FALSE, raised |-> FALSE]
  ELSE commit_correction(s, Call("correction", fail,
                                 apply_gamma_correction(base_data_of(s), gamma)), fail)

\* ret is "the returned histogram is not None"
ImageService_get_histogram(s) ==
  IF s.current_image = NoImage
  THEN [st |-> s, ret |-> FALSE, raised |-> FALSE]
  ELSE LET h == calculate_histogram(s.current_image.current_data)
       IN  IF h.raised
           THEN [st |-> s, ret |-> FALSE, raised |-> TRUE]
           ELSE [st |-> s, ret |-> TRUE, raised |-> FALSE]

\* reset_to_original that leaves the base image as it is
reset_to_original_keeps_base(s) ==
  IF s.current_image = NoImage
  THEN [st |-> s, ret |-> FALSE, raised |-> FALSE]
  ELSE LET image == Image_reset_to_original(s.current_image)
       IN  [st |-> [current_image |-> image,
                    is_gray |-> FALSE,
                    current_processing_params |-> DefaultParams,
                    base_image_data |-> s.base_image_data],
            ret |-> TRUE, raised |-> FALSE]

ImageService_reset_to_original(s) ==
  IF s.current_image = NoImage
  THEN [st |-> s, ret |-> FALSE, raised |-> FALSE]
  ELSE LET image == Image_reset_to_original(s.current_image)
       IN  [st |-> [current_image |-> image,
                    is_gray |-> FALSE,
                    current_processing_params |-> DefaultParams,
                    base_image_data |-> image.original_data],
            ret |-> TRUE, raised |-> FALSE]

\* reset_processing_params, first a variant without the test for a loaded image
reset_processing_params_without_image(s) ==
  [st |-> [s EXCEPT !.current_processing_params = DefaultParams],
   ret |-> TRUE, raised |-> FALSE]

reset_processing_params(s) ==
  IF s.current_image = NoImage
  THEN [st |-> s, ret |-> FALSE, raised |-> FALSE]
  ELSE [st |-> [s EXCEPT !.current_processing_params = DefaultParams],
        ret |-> TRUE, raised |-> FALSE]

(***************************************************************************)
(* Inputs                                                                  *)
(***************************************************************************)
\* slider values the caller submits: <<brightness, contrast, saturation>>,
\* contrast and saturation in tenths
Adjustments == {<<0, 10, 10>>, <<50, 10, 10>>, <<0, 10, 0>>, <<50, 20, 0>>}

Rotations == {0, 90, 180, 270}

ValidParamSets ==
  { [brightness |-> a[1], contrast |-> a[2], saturation |-> a[3], rotation |-> r] :
      a \in Adjustments, r \in Rotations }

\* one field out of its domain, each side of each range
InvalidParamSets ==
  { [brightness |-> 101, contrast |-> 20, saturation |-> 0, rotation |-> 90],
    [brightness |-> -101, contrast |-> 20, saturation |-> 0, rotation |-> 90],
    [brightness |-> 50, contrast |-> 31, saturation |-> 0, rotation |-> 90],
    [brightness |-> 50, contrast |-> -1, saturation |-> 0, rotation |-> 90],
    [brightness |-> 50, contrast |-> 20, saturation |-> 31, rotation |-> 90],
    [brightness |-> 50, contrast |-> 20, saturation |-> -1, rotation |-> 90],
    [brightness |-> 50, contrast |-> 20, saturation |-> 0, rotation |-> 45],
    [brightness |-> 50, contrast |-> 20, saturation |-> 0, rotation |-> 360],
    [brightness |-> 50, contrast |-> 20, saturation |-> 0, rotation |-> -90] }

ParamSets == ValidParamSets \cup InvalidParamSets

\* factors of the tonal corrections (tenths) and gamma exponents
LinearFactors == {5}

LogFactors == {10}

Gammas == {2}

\* corrections committed between two loads or resets
MaxEdits == 1

\* the processor calls that can be made to raise
FailPoints == {"adjust_brightness", "adjust_contrast", "adjust_saturation",
               "rotate_processed", "rotate_base", "convert_to_grayscale",
               "correction"}

NoFault == {"none"}

AnyFault == FailPoints \cup NoFault

\* the parameter sets submitted to a processor that may raise
FaultParamSets ==
  { DefaultParams,
    [brightness |-> 50, contrast |-> 20, saturation |-> 0, rotation |-> 0],
    [brightness |-> 50, contrast |-> 20, saturation |-> 0, rotation |-> 90],
    [brightness |-> 50, contrast |-> 20, saturation |-> 0, rotation |-> 45] }

(***************************************************************************)
(* task2: grayscale arrays, OpenCV filtering and morphology                *)
(*                                                                         *)
(* The viewer loads with cv2.IMREAD_GRAYSCALE, so its arrays are 2-D: a    *)
(* matrix is the sequence of rows of 8-bit samples.  Kernels are matrices  *)
(* of integers.  Indices are 1-based; anchors keep the 0-based (x, y) of   *)
(* the source.                                                             *)
(***************************************************************************)
\* current_image is None
NoData == <<>>

\* outcome of a call that raised
RaisedData == << <<-1>> >>

IsRaisedData(m) == m = RaisedData

Rows(m) == Len(m)

Cols(m) == IF Len(m) = 0 THEN 0 ELSE Len(m[1])

Saturate(v) == IF v < 0 THEN 0 ELSE IF v > 255 THEN 255 ELSE v

\* cv2.borderInterpolate(p, len, BORDER_REFLECT_101)
RECURSIVE Reflect101(_, _)
Reflect101(p, len) ==
  IF len = 1 THEN 1
  ELSE IF p < 1 THEN Reflect101(2 - p, len)
  ELSE IF p > len THEN Reflect101(2 * len - p, len)
  ELSE p

\* cvRound(num / den): to nearest, ties to even
RoundHalfEven(num, den) ==
  LET n == IF den < 0 THEN -num ELSE num
      d == IF den < 0 THEN -den ELSE den
      q == n \div d
      r == n - q * d
  IN  IF 2 * r < d THEN q
      ELSE IF 2 * r > d THEN q + 1
      ELSE IF q % 2 = 0 THEN q ELSE q + 1

KernelSum(kernel) ==
  SumSeq([u \in 1..Rows(kernel) |-> SumSeq(kernel[u])])

\* cv2.filter2D(src, -1, kernel / den): correlation anchored at the kernel
\* centre, reflected border, result saturated to uint8
filter2D(src, kernel, den) ==
  LET ay == Rows(kernel) \div 2
      ax == Cols(kernel) \div 2
      At(i, j) == src[Reflect101(i, Rows(src))][Reflect101(j, Cols(src))]
      Acc(i, j) ==
        SumSeq([u \in 1..Rows(kernel) |->
                  SumSeq([v \in 1..Cols(kernel) |->
                            kernel[u][v] * At(i + u - 1 - ay, j + v - 1 - ax)])])
  IN  [i \in 1..Rows(src) |->
         [j \in 1..Cols(src) |-> Saturate(RoundHalfEven(Acc(i, j), den))]]

SharpeningFilter_apply(data) ==
  filter2D(data, << <<-1, -1, -1>>, <<-1, 9, -1>>, <<-1, -1, -1>> >>, 1)

\* the kernel is divided by its sum unless the sum is zero
CustomFilterImplementation_apply(data, kernel) ==
  filter2D(data, kernel, IF KernelSum(kernel) # 0 THEN KernelSum(kernel) ELSE 1)

\* StructuralElement.__init__ without an explicit anchor
StructuralElement(kernel) ==
  [kernel |-> kernel, anchor |-> <<Rows(kernel) \div 2, Cols(kernel) \div 2>>]

\* OpenCV takes the anchor as (x, y) and requires it inside the kernel
AnchorInside(se) ==
  /\ se.anchor[1] \in 0..(Cols(se.kernel) - 1)
  /\ se.anchor[2] \in 0..(Rows(se.kernel) - 1)

\* the samples under the non-zero kernel elements around (i, j); samples
\* outside the array do not take part
Under(src, se, i, j) ==
  { src[ij[1]][ij[2]] :
      ij \in { uv \in (1..Rows(src)) \X (1..Cols(src)) :
                 LET u == uv[1] - i + se.anchor[2] + 1
                     v == uv[2] - j + se.anchor[1] + 1
                 IN  /\ u \in 1..Rows(se.kernel)
                     /\ v \in 1..Cols(se.kernel)
                     /\ se.kernel[u][v] # 0 } }

MinOf(S) == CHOOSE x \in S : \A y \in S : x <= y

MaxOf(S) == CHOOSE x \in S : \A y \in S : x >= y

\* cv2.erode(src, kernel, anchor=anchor, iterations=1)
erode(src, se) ==
  IF IsRaisedData(src) \/ ~AnchorInside(se) THEN RaisedData
  ELSE [i \in 1..Rows(src) |->
          [j \in 1..Cols(src) |-> MinOf(Under(src, se, i, j) \cup {255})]]

\* cv2.dilate(src, kernel, anchor=anchor, iterations=1)
dilate(src, se) ==
  IF IsRaisedData(src) \/ ~AnchorInside(se) THEN RaisedData
  ELSE [i \in 1..Rows(src) |->
          [j \in 1..Cols(src) |-> MaxOf(Under(src, se, i, j) \cup {0})]]

\* saturating a - b on uint8 arrays
Subtract(a, b) ==
  IF IsRaisedData(a) \/ IsRaisedData(b) THEN RaisedData
  ELSE [i \in 1..Rows(a) |-> [j \in 1..Cols(a) |-> Saturate(a[i][j] - b[i][j])]]

\* cv2.morphologyEx(src, op, kernel, anchor=anchor)
morphologyEx(src, op, se) ==
  IF op = "MORPH_OPEN" THEN dilate(erode(src, se), se)
  ELSE IF op = "MORPH_CLOSE" THEN erode(dilate(src, se), se)
  ELSE IF op = "MORPH_GRADIENT" THEN Subtract(dilate(src, se), erode(src, se))
  ELSE IF op = "MORPH_TOPHAT" THEN Subtract(src, dilate(erode(src, se), se))
  ELSE Subtract(erode(dilate(src, se), se), src)

\* ImageViewer.operations_map and the apply of each operation
operations_map(operation_name, data, se) ==
  IF operation_name = "erosion" THEN erode(data, se)
  ELSE IF operation_name = "dilation" THEN dilate(data, se)
  ELSE IF operation_name = "opening" THEN morphologyEx(data, "MORPH_OPEN", se)
  ELSE IF operation_name = "closing" THEN morphologyEx(data, "MORPH_CLOSE", se)
  ELSE IF operation_name = "gradient" THEN morphologyEx(data, "MORPH_GRADIENT", se)
  ELSE IF operation_name = "top_hat" THEN morphologyEx(data, "MORPH_TOPHAT", se)
  ELSE morphologyEx(data, "MORPH_BLACKHAT", se)

(***************************************************************************)
(* ImageViewer (task2 presentation/gui.py)                                 *)
(*                                                                         *)
(* A handler is an operator from the viewer state v and its inputs to      *)
(* [st, failed]: the state it leaves and whether it showed an error.       *)
(* The text entries of a kernel grid are [numeric, rows]: numeric is       *)
(* whether every entry parses as a number, rows are the parsed values.     *)
(* Modelled are load, undo, the morphological operation, sharpening and    *)
(* the custom filter; the emboss, motion-blur and median handlers have the *)
(* try/except of apply_sharpening around another filter, and saving and    *)
(* showing the original change no field.                                   *)
(***************************************************************************)
ViewerState ==
  [current_image |-> viewer_current_image, original_image |-> viewer_original_image,
   image_history |-> image_history, undo_btn |-> undo_btn]

ViewerFiles == {"", "scan.png", "missing.png"}

\* cv2.imread(path, cv2.IMREAD_GRAYSCALE); load raises when it returns None
OpenCVImageRepository_load(path) ==
  IF path = "scan.png" THEN << <<40, 200>>, <<90, 10>> >> ELSE RaisedData

\* path is empty when the file dialog was cancelled
ImageViewer_load_image(v, path) ==
  IF path = "" THEN [st |-> v, failed |-> FALSE]
  ELSE LET loaded_image == OpenCVImageRepository_load(path)
       IN  IF IsRaisedData(loaded_image)
           THEN [st |-> v, failed |-> TRUE]
           ELSE [st |-> [current_image |-> loaded_image,
                         original_image |-> loaded_image,
                         image_history |-> <<>>,
                         undo_btn |-> FALSE],
                 failed |-> FALSE]

\* save_state_before_operation, first with room for 21 snapshots
save_state_keeps_21(v) ==
  IF v.current_image # NoData
  THEN LET appended == Append(v.image_history, v.current_image)
       IN  [v EXCEPT !.image_history = IF Len(appended) > 21 THEN Tail(appended)
                                       ELSE appended,
                     !.undo_btn = TRUE]
  ELSE v

save_state_before_operation(v) ==
  IF v.current_image # NoData
  THEN LET appended == Append(v.image_history, v.current_image)
       IN  [v EXCEPT !.image_history = IF Len(appended) > 20 THEN Tail(appended)
                                       ELSE appended,
                     !.undo_btn = TRUE]
  ELSE v

\* image_history.pop() and the button update that follows it (first a pop
\* that leaves the button as it is)
pop_history_keeps_button(v) ==
  LET rest == SubSeq(v.image_history, 1, Len(v.image_history) - 1)
  IN  [v EXCEPT !.image_history = rest]

pop_history(v) ==
  LET rest == SubSeq(v.image_history, 1, Len(v.image_history) - 1)
  IN  [v EXCEPT !.image_history = rest,
                !.undo_btn = IF rest = <<>> THEN FALSE ELSE @]

undo_last_action(v) ==
  IF v.image_history # <<>>
  THEN [st |-> [pop_history(v) EXCEPT
                  !.current_image = v.image_history[Len(v.image_history)]],
        failed |-> FALSE]
  ELSE [st |-> v, failed |-> FALSE]

\* the try/except shared by the edit handlers: snapshot, run the edit on the
\* current image, and on an exception pop the history
edit_outcome(v, result) ==
  LET saved == save_state_before_operation(v)
  IN  IF IsRaisedData(result)
      THEN [st |-> IF saved.image_history # <<>> THEN pop_history(saved) ELSE saved,
            failed |-> TRUE]
      ELSE [st |-> [saved EXCEPT !.current_image = result], failed |-> FALSE]

\* int() of every entry; ValueError when one is not a number
get_kernel_from_entries(entries) ==
  IF entries.numeric THEN entries.rows ELSE RaisedData

\* float() of every entry; ValueError when one is not a number
get_custom_kernel_from_entries(entries) ==
  IF entries.numeric THEN entries.rows ELSE RaisedData

ImageViewer_apply_operation(v, operation_name, entries) ==
  IF v.current_image = NoData THEN [st |-> v, failed |-> FALSE]
  ELSE LET kernel == get_kernel_from_entries(entries)
       IN  edit_outcome(v, IF IsRaisedData(kernel) THEN RaisedData
                           ELSE operations_map(operation_name, v.current_image,
                                               StructuralElement(kernel)))

ImageViewer_apply_sharpening(v) ==
  IF v.current_image = NoData THEN [st |-> v, failed |-> FALSE]
  ELSE edit_outcome(v, SharpeningFilter_apply(v.current_image))

ImageViewer_apply_custom_filter(v, entries) ==
  IF v.current_image = NoData THEN [st |-> v, failed |-> FALSE]
  ELSE LET kernel == get_custom_kernel_from_entries(entries)
       IN  edit_outcome(v, IF IsRaisedData(kernel) THEN RaisedData
                           ELSE CustomFilterImplementation_apply(v.current_image, kernel))

(***************************************************************************)
(* State machine: one action per ImageService operation                    *)
(***************************************************************************)
CorrectionOps == {"apply_linear_correction", "apply_logarithmic_correction",
                  "apply_gamma_correction"}

\* ImageService.__init__
ServiceInit ==
  /\ current_image = NoImage
  /\ is_gray = FALSE
  /\ current_processing_params = DefaultParams
  /\ base_image_data = None
  /\ last = [op |-> "init", ret |-> FALSE, raised |-> FALSE, before |-> None]
  /\ edits = 0
  /\ loaded = None
  /\ turned = 0

NoEntries == [numeric |-> TRUE, rows |-> <<>>]

NoInput == [operation_name |-> "none", entries |-> NoEntries]

\* ImageViewer.__init__
ViewerInit ==
  /\ viewer_current_image = NoData
  /\ viewer_original_image = NoData
  /\ image_history = <<>>
  /\ undo_btn = FALSE
  /\ viewer_last = [op |-> "init", input |-> NoInput, failed |-> FALSE,
                    before |-> NoData]
  /\ trail = <<>>

NoProbe == [image |-> None, angle |-> 0, steps |-> 0, out |-> None]

Init ==
  /\ ServiceInit
  /\ ViewerInit
  /\ probe = NoProbe

\* install the outcome r of the call op; before is the base a successful
\* tonal correction started from
Returns(op, r) ==
  /\ current_image' = r.st.current_image
  /\ is_gray' = r.st.is_gray
  /\ current_processing_params' = r.st.current_processing_params
  /\ base_image_data' = r.st.base_image_data
  /\ last' = [op |-> op, ret |-> r.ret, raised |-> r.raised,
               before |-> IF op \in CorrectionOps /\ r.ret THEN base_image_data
                          ELSE None]
  /\ UNCHANGED <<viewer_vars, probe>>

LoadImage ==
  \E file_path \in Files :
    LET r == ImageService_load_image(State, file_path)
    IN  /\ Returns("load_image", r)
        /\ edits' = IF r.ret THEN 0 ELSE edits
        /\ loaded' = IF r.ret THEN FileImage(file_path).original_data ELSE loaded
        /\ turned' = IF r.ret THEN 0 ELSE turned

SaveImage ==
  \E io_ok \in BOOLEAN :
    /\ Returns("save_image", ImageService_save_image(State, io_ok))
    /\ UNCHANGED <<edits, loaded, turned>>

ConvertToGrayscale(F) ==
  \E fail \in F :
    /\ Returns("convert_to_grayscale", ImageService_convert_to_grayscale(State, fail))
    /\ UNCHANGED <<edits, loaded, turned>>

\* the base is written by this call only when it is rotated by the rotation
\* delta, so a changed base has been turned by that delta
ApplyProcessingParameters(P, F) ==
  \E params \in P, fail \in F :
    LET r == apply_processing_parameters(State, params, fail)
    IN  /\ Returns("apply_processing_parameters", r)
        /\ turned' = IF r.st.base_image_data # base_image_data
                      THEN (turned + params.rotation
                                   - current_processing_params.rotation) % 360
                      ELSE turned
        /\ UNCHANGED <<edits, loaded>>

\* a correction call; edits counts the committed ones up to max
CorrectionWithin(max, op, r) ==
  /\ edits < max
  /\ Returns(op, r)
  /\ edits' = IF r.st.base_image_data # base_image_data THEN edits + 1 ELSE edits
  /\ UNCHANGED <<loaded, turned>>

Correction(op, r) == CorrectionWithin(MaxEdits, op, r)

ApplyLinearCorrection(F) ==
  \E factor \in LinearFactors, fail \in F :
    Correction("apply_linear_correction",
               ImageService_apply_linear_correction(State, factor, fail))

ApplyLogarithmicCorrection(F) ==
  \E factor \in LogFactors, fail \in F :
    Correction("apply_logarithmic_correction",
               ImageService_apply_logarithmic_correction(State, factor, fail))

ApplyGammaCorrection(F) ==
  \E gamma \in Gammas, fail \in F :
    Correction("apply_gamma_correction",
               ImageService_apply_gamma_correction(State, gamma, fail))

GetHistogram ==
  /\ Returns("get_histogram", ImageService_get_histogram(State))
  /\ UNCHANGED <<edits, loaded, turned>>

ResetToOriginal ==
  LET r == ImageService_reset_to_original(State)
  IN  /\ Returns("reset_to_original", r)
      /\ edits' = IF r.ret THEN 0 ELSE edits
      /\ turned' = IF r.ret THEN 0 ELSE turned
      /\ UNCHANGED loaded

ResetProcessingParams ==
  /\ Returns("reset_processing_params", reset_processing_params(State))
  /\ UNCHANGED <<edits, loaded, turned>>

\* the service driven through PillowImageProcessor
Next ==
  \/ LoadImage
  \/ SaveImage
  \/ ConvertToGrayscale(NoFault)
  \/ ApplyProcessingParameters(ParamSets, NoFault)
  \/ ApplyLinearCorrection(NoFault)
  \/ ApplyLogarithmicCorrection(NoFault)
  \/ ApplyGammaCorrection(NoFault)
  \/ GetHistogram
  \/ ResetToOriginal
  \/ ResetProcessingParams

Spec == Init /\ [][Next]_vars

\* the service driven through a processor whose calls may raise
NextFail ==
  \/ LoadImage
  \/ SaveImage
  \/ ConvertToGrayscale(AnyFault)
  \/ ApplyProcessingParameters(FaultParamSets, AnyFault)
  \/ ApplyLinearCorrection(AnyFault)
  \/ ApplyLogarithmicCorrection(AnyFault)
  \/ ApplyGammaCorrection(AnyFault)
  \/ GetHistogram
  \/ ResetToOriginal
  \/ ResetProcessingParams

SpecFail == Init /\ [][NextFail]_vars

(***************************************************************************)
(* Sequences of apply_processing_parameters calls from one start state     *)
(***************************************************************************)
\* the start of the sequences: the service state reached by loading and by
\* structural edits is remembered in probe.image
StartOfSequences ==
  /\ probe = NoProbe
  /\ current_image # NoImage
  /\ probe' = [image |-> State, angle |-> 0, steps |-> 1, out |-> None]
  /\ UNCHANGED <<service_vars, viewer_vars>>

\* loads and structural edits up to the start, parameter changes after it
NextPaths ==
  \/ probe = NoProbe /\ LoadImage
  \/ probe = NoProbe /\ ConvertToGrayscale(NoFault)
  \/ probe = NoProbe /\ ApplyLinearCorrection(NoFault)
  \/ StartOfSequences
  \/ probe.steps = 1 /\ ApplyProcessingParameters(ValidParamSets, NoFault)

SpecPaths == Init /\ [][NextPaths]_vars

(***************************************************************************)
(* The rotate button (presentation/gui.py, event -ROTATE-)                 *)
(***************************************************************************)
\* the state the quarter turns start from, with the rotation parameter at 0
StartOfTurns ==
  /\ probe = NoProbe
  /\ current_image # NoImage
  /\ current_processing_params.rotation = 0
  /\ probe' = [image |-> State, angle |-> 0, steps |-> 1, out |-> None]
  /\ UNCHANGED <<service_vars, viewer_vars>>

\* rotation = (rotation + 90) % 360, the other parameters as they are
Rotate ==
  ApplyProcessingParameters(
    {[current_processing_params EXCEPT !.rotation = (@ + 90) % 360]}, NoFault)

NextTurns ==
  \/ probe = NoProbe /\ LoadImage
  \/ probe = NoProbe /\ ConvertToGrayscale(NoFault)
  \/ probe = NoProbe /\ ApplyProcessingParameters(ValidParamSets, NoFault)
  \/ probe = NoProbe /\ ApplyLinearCorrection(NoFault)
  \/ probe = NoProbe /\ ResetProcessingParams
  \/ StartOfTurns
  \/ probe.steps = 1 /\ Rotate

SpecTurns == Init /\ [][NextTurns]_vars

(***************************************************************************)
(* State machine of ImageViewer: one action per handler                    *)
(***************************************************************************)
EditOps == {"apply_operation", "apply_sharpening", "apply_custom_filter"}

\* the grids of the structuring element: the 3 x 3 grid of ones the viewer
\* starts with, a 3 x 1 column of ones, and a grid with a non-numeric entry
KernelEntries ==
  { [numeric |-> TRUE, rows |-> << <<1, 1, 1>>, <<1, 1, 1>>, <<1, 1, 1>> >>],
    [numeric |-> TRUE, rows |-> << <<1>>, <<1>>, <<1>> >>],
    [numeric |-> FALSE, rows |-> << <<1, 1, 1>>, <<1, 0, 1>>, <<1, 1, 1>> >>] }

\* the grids of the custom filter: the 3 x 3 grid of zeros the viewer starts
\* with and a grid with a non-numeric entry
CustomEntries ==
  { [numeric |-> TRUE, rows |-> << <<0, 0, 0>>, <<0, 0, 0>>, <<0, 0, 0>> >>],
    [numeric |-> FALSE, rows |-> << <<0, 0, 0>>, <<0, 0, 0>>, <<0, 0, 0>> >>] }

OperationNames == {"erosion", "dilation"}

\* the history never holds more than 20 snapshots, so a depth of 21 lets the
\* edit handlers run at every history length
AnyDepth == 21

\* richer inputs for chains of a few edits
ChainOperationNames == {"erosion", "dilation", "gradient"}

ChainKernelEntries ==
  { [numeric |-> TRUE, rows |-> << <<1, 1, 1>>, <<1, 1, 1>>, <<1, 1, 1>> >>],
    [numeric |-> TRUE, rows |-> << <<1, 1>>, <<0, 1>> >>] }

ChainCustomEntries ==
  { [numeric |-> TRUE, rows |-> << <<1, 1, 1>> >>] }

\* edits in a chain between two loads or resets
MaxChain == 2

Cap20(h) == IF Len(h) > 20 THEN Tail(h) ELSE h

\* install the outcome r of the handler op
ViewerReturns(op, input, r) ==
  /\ viewer_current_image' = r.st.current_image
  /\ viewer_original_image' = r.st.original_image
  /\ image_history' = r.st.image_history
  /\ undo_btn' = r.st.undo_btn
  /\ viewer_last' = [op |-> op, input |-> input, failed |-> r.failed,
                     before |-> IF op \in EditOps THEN viewer_current_image
                                ELSE NoData]
  /\ UNCHANGED <<service_vars, probe>>

\* an edit handler; a successful edit adds the image it found to trail
ViewerEdit(depth, op, input, r) ==
  /\ Len(image_history) < depth
  /\ ViewerReturns(op, input, r)
  /\ trail' = IF ~r.failed /\ viewer_current_image # NoData
              THEN Cap20(Append(trail, viewer_current_image))
              ELSE trail

ViewerLoadImage ==
  \E path \in ViewerFiles :
    LET r == ImageViewer_load_image(ViewerState, path)
    IN  /\ ViewerReturns("load_image", NoInput, r)
        /\ trail' = IF path # "" /\ ~r.failed THEN <<>> ELSE trail

UndoLastAction ==
  /\ ViewerReturns("undo_last_action", NoInput, undo_last_action(ViewerState))
  /\ trail' = IF trail # <<>> THEN SubSeq(trail, 1, Len(trail) - 1) ELSE trail

ApplyOperation(depth, names, grids) ==
  \E operation_name \in names, entries \in grids :
    ViewerEdit(depth, "apply_operation",
               [operation_name |-> operation_name, entries |-> entries],
               ImageViewer_apply_operation(ViewerState, operation_name, entries))

ApplySharpening(depth) ==
  ViewerEdit(depth, "apply_sharpening", NoInput,
             ImageViewer_apply_sharpening(ViewerState))

ApplyCustomFilter(depth, grids) ==
  \E entries \in grids :
    ViewerEdit(depth, "apply_custom_filter",
               [operation_name |-> "none", entries |-> entries],
               ImageViewer_apply_custom_filter(ViewerState, entries))

NextViewer ==
  \/ ViewerLoadImage
  \/ UndoLastAction
  \/ ApplyOperation(AnyDepth, OperationNames, KernelEntries)
  \/ ApplySharpening(AnyDepth)
  \/ ApplyCustomFilter(AnyDepth, CustomEntries)

SpecViewer == Init /\ [][NextViewer]_vars

(***************************************************************************)
(* Chains of structural edits in the service and in the viewer             *)
(***************************************************************************)
ChainLinearCorrection ==
  \E factor \in LinearFactors :
    CorrectionWithin(MaxChain, "apply_linear_correction",
                     ImageService_apply_linear_correction(State, factor, "none"))

ChainLogarithmicCorrection ==
  \E factor \in LogFactors :
    CorrectionWithin(MaxChain, "apply_logarithmic_correction",
                     ImageService_apply_logarithmic_correction(State, factor, "none"))

ChainGammaCorrection ==
  \E gamma \in Gammas :
    CorrectionWithin(MaxChain, "apply_gamma_correction",
                     ImageService_apply_gamma_correction(State, gamma, "none"))

NextEdits ==
  \/ LoadImage
  \/ ChainLinearCorrection
  \/ ChainLogarithmicCorrection
  \/ ChainGammaCorrection
  \/ ViewerLoadImage
  \/ ApplyOperation(MaxChain, ChainOperationNames, ChainKernelEntries)
  \/ ApplySharpening(MaxChain)
  \/ ApplyCustomFilter(MaxChain, ChainCustomEntries)

SpecEdits == Init /\ [][NextEdits]_vars

(***************************************************************************)
(* rotate_image applied to a raster, and again to its result               *)
(***************************************************************************)
\* the 2-D rasters of up to 2 x 2 samples out of {0, 255}
GrayProbeRasters ==
  { [ndim |-> 2, rows |-> [i \in 1..h |-> [j \in 1..w |-> <<f[<<i, j>>]>>]]] :
      h \in 1..2, w \in 1..2, f \in [(1..2) \X (1..2) -> {0, 255}] }

\* the three-channel rasters of up to 3 x 3 pixels, every pixel different
ColourProbeRasters ==
  { [ndim |-> 3,
     rows |-> [i \in 1..h |-> [j \in 1..w |->
                 <<10 * i + j, 100 + 10 * i + j, 200 + 10 * i + j>>]]] :
      h \in 1..3, w \in 1..3 }

ProbeRasters == GrayProbeRasters \cup ColourProbeRasters

ProbeAngles == {0, 90, 180, 270, 360, 450, 720, -90, -180, -270, -360, 45, -45, 91}

\* applications of rotate_image in a row
MaxTurns == 4

InitRotate ==
  /\ ServiceInit
  /\ ViewerInit
  /\ probe \in {[image |-> r, angle |-> 0, steps |-> 0, out |-> r] : r \in ProbeRasters}

RotateInput ==
  /\ probe.steps = 0
  /\ \E angle \in ProbeAngles :
       probe' = [probe EXCEPT !.angle = angle, !.steps = 1,
                              !.out = rotate_image(probe.image, angle)]
  /\ UNCHANGED <<service_vars, viewer_vars>>

RotateAgain ==
  /\ probe.steps \in 1..(MaxTurns - 1)
  /\ ~IsRaised(probe.out)
  /\ probe' = [probe EXCEPT !.steps = @ + 1,
                            !.out = rotate_image(probe.out, probe.angle)]
  /\ UNCHANGED <<service_vars, viewer_vars>>

NextRotate == RotateInput \/ RotateAgain

SpecRotate == InitRotate /\ [][NextRotate]_vars

(***************************************************************************)
(* calculate_histogram applied to a raster                                 *)
(***************************************************************************)
\* the H x W x C arrays of up to 2 x 2 pixels with 1 to 5 channels, in two
\* fillings: samples that differ from pixel to pixel and channel to channel,
\* and 255 everywhere
ChannelProbeRasters ==
  { [ndim |-> 3,
     rows |-> [i \in 1..h |-> [j \in 1..w |-> [c \in 1..n |->
                 IF flat THEN 255 ELSE (90 * i + 37 * j + 50 * c) % 256]]]] :
      h \in 1..2, w \in 1..2, n \in 1..5, flat \in BOOLEAN }

HistogramProbeRasters == GrayProbeRasters \cup ChannelProbeRasters

InitHistogram ==
  /\ ServiceInit
  /\ ViewerInit
  /\ probe \in {[image |-> r, angle |-> 0, steps |-> 0, out |-> NoHistogram] :
                  r \in HistogramProbeRasters}

CalculateHistogram ==
  /\ probe.steps = 0
  /\ probe' = [probe EXCEPT !.steps = 1, !.out = calculate_histogram(probe.image)]
  /\ UNCHANGED <<service_vars, viewer_vars>>

NextHistogram == CalculateHistogram

SpecHistogram == InitHistogram /\ [][NextHistogram]_vars

(***************************************************************************)
(* The opening operation applied to a grayscale array                      *)
(***************************************************************************)
\* the grayscale arrays of 2 x 2 samples out of {0, 120, 255}
OpeningProbeArrays ==
  { [i \in 1..2 |-> [j \in 1..2 |-> f[<<i, j>>]]] :
      f \in [(1..2) \X (1..2) -> {0, 120, 255}] }

\* structuring elements: a single one, the 3 x 3 square and cross, the 2 x 2
\* square, an L-shaped 2 x 2 element, a 2 x 3 rectangle and a 3 x 1 column
OpeningProbeKernels ==
  { << <<1>> >>,
    << <<1, 1, 1>>, <<1, 1, 1>>, <<1, 1, 1>> >>,
    << <<0, 1, 0>>, <<1, 1, 1>>, <<0, 1, 0>> >>,
    << <<1, 1>>, <<1, 1>> >>,
    << <<1, 1>>, <<0, 1>> >>,
    << <<1, 1, 1>>, <<1, 1, 1>> >>,
    << <<1>>, <<1>>, <<1>> >> }

InitOpening ==
  /\ ServiceInit
  /\ ViewerInit
  /\ probe \in {[image |-> r, kernel |-> k, steps |-> 0, out |-> r] :
                  r \in OpeningProbeArrays, k \in OpeningProbeKernels}

\* OpenCVOpeningOperation.apply on StructuralElement(kernel)
ApplyOpening ==
  /\ probe.steps = 0
  /\ probe' = [probe EXCEPT !.steps = 1,
                            !.out = operations_map("opening", probe.image,
                                                   StructuralElement(probe.kernel))]
  /\ UNCHANGED <<service_vars, viewer_vars>>

NextOpening == ApplyOpening

SpecOpening == InitOpening /\ [][NextOpening]_vars

(***************************************************************************)
(* The default anchor of a structuring element                             *)
(***************************************************************************)
\* the numbers of rows and of columns of a kernel
KernelSizes == 1..20

\* the kernels of ones of every size
AnchorProbeKernels ==
  { [i \in 1..rows |-> [j \in 1..cols |-> 1]] :
      rows \in KernelSizes, cols \in KernelSizes }

InitAnchor ==
  /\ ServiceInit
  /\ ViewerInit
  /\ probe \in {[image |-> NoData, kernel |-> k, steps |-> 0,
                  out |-> [kernel |-> k, anchor |-> <<-1, -1>>]] :
                  k \in AnchorProbeKernels}

\* StructuralElement(kernel), no anchor given
BuildStructuralElement ==
  /\ probe.steps = 0
  /\ probe' = [probe EXCEPT !.steps = 1, !.out = StructuralElement(probe.kernel)]
  /\ UNCHANGED <<service_vars, viewer_vars>>

NextAnchor == BuildStructuralElement

SpecAnchor == InitAnchor /\ [][NextAnchor]_vars

(***************************************************************************)
(* Properties                                                              *)
(***************************************************************************)
Loaded == current_image # NoImage

\* the parameter domains of the data model (contrast, saturation in tenths)
InDomain(p) ==
  /\ p.brightness \in -100..100
  /\ p.contrast \in 0..30
  /\ p.saturation \in 0..30
  /\ p.rotation \in {0, 90, 180, 270}

\* brightness, contrast, saturation and grayscale forcing replayed on a base
\* raster; saturation does nothing to a grayscale image
Replay(base, p, gray) ==
  LET bright == IF p.brightness # 0 THEN adjust_brightness(base, p.brightness) ELSE base
      contr == IF p.contrast # 10 THEN adjust_contrast(bright, p.contrast) ELSE bright
      satur == IF ~gray /\ p.saturation # 10
               THEN adjust_saturation(contr, p.saturation) ELSE contr
  IN  IF gray THEN convert_to_grayscale(satur) ELSE satur

\* C1: in every state reached by successful operations the current raster is
\* the replay of the active parameter set (brightness, contrast, saturation,
\* grayscale forcing when the flag is set) on the base raster.
C1_CurrentIsReplayOfBase ==
  Loaded => current_image.current_data =
              Replay(base_image_data, current_processing_params, is_gray)

\* C2: a second apply_processing_parameters(p) right after a successful
\* apply_processing_parameters(p) leaves the current raster and the base
\* raster as the first call left them.
C2_ApplyTwiceSameAsOnce ==
  [][ ( /\ last.op = "apply_processing_parameters" /\ last.ret
        /\ last'.op = "apply_processing_parameters" /\ last'.ret
        /\ current_processing_params' = current_processing_params )
      => /\ current_image'.current_data = current_image.current_data
         /\ base_image_data' = base_image_data ]_vars

\* C3: on a loaded image reset_to_original succeeds and leaves current and
\* base equal to the originally loaded raster, the parameters at identity
\* and the grayscale flag cleared.
C3_ResetRestoresLoad ==
  [][ (Loaded /\ last'.op = "reset_to_original")
      => /\ last'.ret
         /\ current_image'.current_data = loaded
         /\ base_image_data' = loaded
         /\ current_processing_params' =
              [brightness |-> 0, contrast |-> 10, saturation |-> 10, rotation |-> 0]
         /\ ~is_gray' ]_vars

\* a reset has acted on an image whose current, base, parameters and flag had
\* all moved away from the load
C3_Witness ==
  /\ last.op = "reset_to_original" /\ last.ret
  /\ edits = 0
  /\ current_image.current_data = loaded
  /\ loaded.ndim = 3

\* C4: no operation other than a successful load changes the original raster
\* held by the image.
C4_OriginalNeverMutates ==
  [][ ~(last'.op = "load_image" /\ last'.ret)
      => current_image'.original_data = current_image.original_data ]_vars

\* an edit has changed the current raster and the original is still the load
C4_Witness ==
  /\ Loaded
  /\ last.op \in CorrectionOps \cup {"apply_processing_parameters", "convert_to_grayscale"}
  /\ last.ret
  /\ current_image.current_data # current_image.original_data
  /\ current_image.original_data = loaded

\* C5: apply_processing_parameters with a parameter set outside the domains
\* reports failure and leaves base, current, the active parameters, the
\* grayscale flag and the modified flag unchanged.
C5_InvalidParamsRejected ==
  [][ \A p \in ParamSets :
        ( /\ last'.op = "apply_processing_parameters"
          /\ ~InDomain(p)
          /\ Returns("apply_processing_parameters",
                     apply_processing_parameters(State, p, "none")) )
        => /\ ~last'.ret
           /\ UNCHANGED <<base_image_data, current_image,
                          current_processing_params, is_gray>> ]_vars

\* an out-of-domain set was rejected on an image that has been edited
C5_Witness ==
  /\ Loaded
  /\ last.op = "apply_processing_parameters" /\ ~last.ret /\ ~last.raised
  /\ current_image.is_modified
  /\ current_processing_params.brightness = 50

\* a successful apply_processing_parameters step
AppliedStep == last'.op = "apply_processing_parameters" /\ last'.ret

\* the rotation a successful apply_processing_parameters step asked for,
\* relative to the rotation that was active
RotationDelta == current_processing_params'.rotation - current_processing_params.rotation

\* the stage order as claimed: grayscale forcing, brightness, contrast,
\* saturation, rotation
GrayFirstPipeline(base, p, gray, delta) ==
  LET forced == IF gray THEN convert_to_grayscale(base) ELSE base
      bright == IF p.brightness # 0 THEN adjust_brightness(forced, p.brightness) ELSE forced
      contr == IF p.contrast # 10 THEN adjust_contrast(bright, p.contrast) ELSE bright
      satur == IF p.saturation # 10 THEN adjust_saturation(contr, p.saturation) ELSE contr
  IN  rotate_image(satur, delta)

\* the stage order of the amended claim: brightness, contrast, saturation
\* (skipped when the image is grayscale before the call), rotation, grayscale
\* forcing
GrayLastPipeline(base, p, gray, skip_saturation, delta) ==
  LET bright == IF p.brightness # 0 THEN adjust_brightness(base, p.brightness) ELSE base
      contr == IF p.contrast # 10 THEN adjust_contrast(bright, p.contrast) ELSE bright
      satur == IF ~skip_saturation /\ p.saturation # 10
               THEN adjust_saturation(contr, p.saturation) ELSE contr
      rotated == rotate_image(satur, delta)
  IN  IF gray THEN convert_to_grayscale(rotated) ELSE rotated

\* C6 as stated: a successful apply_processing_parameters computes current
\* from base by grayscale forcing, then brightness, contrast, saturation and
\* rotation.
C6_Original_GrayscaleForcedFirst ==
  [][ AppliedStep
      => current_image'.current_data =
           GrayFirstPipeline(base_image_data, current_processing_params',
                             is_gray, RotationDelta) ]_vars

\* C6 amended: a successful apply_processing_parameters computes current from
\* base by brightness, then contrast, then saturation (skipped when the image
\* is grayscale before the call), then rotation by the change of the rotation
\* parameter, and grayscale forcing comes last.
C6_GrayscaleForcedLast ==
  [][ AppliedStep
      => current_image'.current_data =
           GrayLastPipeline(base_image_data, current_processing_params', is_gray,
                            current_image.current_data.ndim = 2
                              \/ current_image.color_model = "L",
                            RotationDelta) ]_vars

\* every stage has run on a colour base: brightness, contrast and saturation
\* away from identity, a rotation, and the grayscale flag set
C6_Witness ==
  /\ last.op = "apply_processing_parameters" /\ last.ret
  /\ is_gray
  /\ base_image_data.ndim = 3
  /\ current_image.current_data.ndim = 2
  /\ current_processing_params = [brightness |-> 50, contrast |-> 20,
                                  saturation |-> 0, rotation |-> 90]
  /\ Height(current_image.current_data) = 2

\* a successful tonal correction step and the correction it applies
CorrectedBase(op, base) ==
  IF op = "apply_linear_correction"
  THEN {apply_linear_correction(base, f) : f \in LinearFactors}
  ELSE IF op = "apply_logarithmic_correction"
  THEN {apply_logarithmic_correction(base, f) : f \in LogFactors}
  ELSE {apply_gamma_correction(base, g) : g \in Gammas}

\* C7: after a successful linear, logarithmic or gamma correction base is the
\* correction of the previous base, the active parameters are unchanged and
\* current is their replay on the new base.
C7_CorrectionCommitsAndReplays ==
  [][ (last'.op \in CorrectionOps /\ last'.ret)
      => /\ base_image_data' \in CorrectedBase(last'.op, base_image_data)
         /\ current_processing_params' = current_processing_params
         /\ current_image'.current_data =
              Replay(base_image_data', current_processing_params', is_gray') ]_vars

\* a successful load or reset step
LoadOrResetStep == last'.op \in {"load_image", "reset_to_original"} /\ last'.ret

\* C8 as stated: a successful convert_to_grayscale commits the conversion
\* into base, which is single-channel from then on until the next load or
\* reset.
C8_Original_GrayscaleCommittedToBase ==
  [][ /\ (last'.op = "convert_to_grayscale" /\ last'.ret)
         => /\ base_image_data' = convert_to_grayscale(base_image_data)
            /\ base_image_data'.ndim = 2
      /\ (is_gray /\ base_image_data.ndim = 2 /\ ~LoadOrResetStep)
         => base_image_data'.ndim = 2 ]_vars

\* C8 amended: a successful convert_to_grayscale leaves base unchanged, sets
\* current to the grayscale conversion of the previous current
\* (single-channel) and sets the grayscale flag, which stays set until the
\* next successful load or reset.
C8_GrayscaleKeptInFlag ==
  [][ /\ (last'.op = "convert_to_grayscale" /\ last'.ret)
         => /\ base_image_data' = base_image_data
            /\ current_image'.current_data =
                 convert_to_grayscale(current_image.current_data)
            /\ current_image'.current_data.ndim = 2
            /\ is_gray'
      /\ (is_gray /\ ~LoadOrResetStep) => is_gray' ]_vars

\* a colour image was converted and edited afterwards: the base is still
\* colour and the flag is still set
C8_Witness ==
  /\ is_gray
  /\ base_image_data.ndim = 3
  /\ last.op = "apply_processing_parameters" /\ last.ret
  /\ edits > 0

\* C9: when a stage raises during apply_processing_parameters or during a
\* tonal correction (its replay of the parameters included), base, current,
\* the active parameters and the grayscale flag are as before the call.
C9_FailureLeavesStateUntouched ==
  [][ (last'.op \in CorrectionOps \cup {"apply_processing_parameters"} /\ last'.raised)
      => /\ base_image_data' = base_image_data
         /\ current_image'.current_data = current_image.current_data
         /\ current_processing_params' = current_processing_params
         /\ is_gray' = is_gray ]_vars

\* C10: a tonal correction in which a pipeline stage failed reports failure.
C10_CorrectionReportsReplayFailure ==
  [][ (last'.op \in CorrectionOps /\ last'.raised) => ~last'.ret ]_vars

\* C11: with an image loaded, the rotation applied to the base since the
\* last load or reset equals, modulo 360, the rotation of the active
\* parameter set.
C11_RotationAccumulatedInBase ==
  Loaded => turned % 360 = current_processing_params.rotation

\* C12: after every successful load_image the active parameters are
\* identity, the grayscale flag is cleared, base, current and original are
\* the newly loaded raster and the modified flag is false.
C12_LoadInstallsFreshState ==
  [][ (last'.op = "load_image" /\ last'.ret)
      => /\ current_processing_params' =
              [brightness |-> 0, contrast |-> 10, saturation |-> 10, rotation |-> 0]
         /\ ~is_gray'
         /\ base_image_data' = loaded'
         /\ current_image'.current_data = loaded'
         /\ current_image'.original_data = loaded'
         /\ ~current_image'.is_modified
         /\ \E file_path \in Files : loaded' = FileImage(file_path).original_data ]_vars

\* a load has replaced an image: the grayscale file was read although a
\* colour raster had been loaded or the service had state of an earlier load
C12_Witness ==
  /\ last.op = "load_image" /\ last.ret
  /\ loaded.ndim = 2
  /\ current_image.current_data = loaded
  /\ ~is_gray

\* C13: a load_image for which the repository has no image reports failure
\* and leaves the loaded image (base, current, original), the active
\* parameters and the grayscale flag unchanged.
C13_FailedLoadChangesNothing ==
  [][ /\ \A file_path \in Files :
           ( /\ last'.op = "load_image"
             /\ FileImage(file_path) = NoImage
             /\ Returns("load_image", ImageService_load_image(State, file_path)) )
           => ~last'.ret
      /\ (last'.op = "load_image" /\ ~last'.ret)
           => UNCHANGED <<current_image, base_image_data,
                          current_processing_params, is_gray>> ]_vars

\* a load failed on a service holding an edited, converted image
C13_Witness ==
  /\ last.op = "load_image" /\ ~last.ret
  /\ Loaded
  /\ is_gray
  /\ current_image.is_modified
  /\ current_processing_params.brightness = 50

\* a step between one load and the next
BetweenLoads == Loaded /\ ~(last'.op = "load_image" /\ last'.ret)

SameShape(a, b) == Height(a) = Height(b) /\ Width(a) = Width(b)

SameLayout(a, b) == a.ndim = b.ndim /\ Channels(a) = Channels(b)

Transposed(a, b) == Height(a) = Width(b) /\ Width(a) = Height(b)

EditResult(vl, data) ==
  IF vl.op = "apply_operation"
  THEN operations_map(vl.input.operation_name, data,
                      StructuralElement(get_kernel_from_entries(vl.input.entries)))
  ELSE IF vl.op = "apply_sharpening" THEN SharpeningFilter_apply(data)
  ELSE CustomFilterImplementation_apply(data,
                                        get_custom_kernel_from_entries(vl.input.entries))

\* a successful edit of a loaded viewer image
SuccessfulEdit(vl) == vl.op \in EditOps /\ ~vl.failed /\ vl.before # NoData

\* C15: successive structural edits compose left to right: after successful
\* edits e1 then e2 the committed raster (the base of ImageService, the
\* current image of ImageViewer) is e2 applied to e1 applied to the raster
\* before e1.
C15_EditsComposeInCommitOrder ==
  [][ /\ ( /\ last.op \in CorrectionOps /\ last.ret
           /\ last'.op \in CorrectionOps /\ last'.ret
           /\ last'.before = base_image_data
           /\ UNCHANGED viewer_vars )
         => \E first \in CorrectedBase(last.op, last.before) :
              base_image_data' \in CorrectedBase(last'.op, first)
      /\ ( /\ SuccessfulEdit(viewer_last)
           /\ SuccessfulEdit(viewer_last')
           /\ viewer_last'.before = viewer_current_image
           /\ UNCHANGED service_vars )
         => viewer_current_image' =
              EditResult(viewer_last', EditResult(viewer_last, viewer_last.before)) ]_vars

\* two corrections were committed in the service and two edits, each changing
\* the image, in the viewer
C15_Witness ==
  /\ edits = 2
  /\ last.op \in CorrectionOps /\ last.ret
  /\ last.before # loaded
  /\ base_image_data # last.before
  /\ SuccessfulEdit(viewer_last)
  /\ Len(image_history) = 2
  /\ image_history[1] # image_history[2]
  /\ viewer_current_image # image_history[2]

\* a handler that ran an edit on a loaded image
EditStep == viewer_last'.op \in EditOps /\ viewer_last'.before # NoData /\ ~UNCHANGED viewer_vars

\* C16: the undo history never holds more than 20 snapshots; an edit pushes
\* the image it starts from, and a push onto 20 snapshots evicts the oldest,
\* the other snapshots keeping their order.
C16_HistoryBoundedAt20 ==
  [][ /\ Len(image_history') <= 20
      /\ (EditStep /\ ~viewer_last'.failed)
           => image_history' =
                IF Len(image_history) < 20
                THEN Append(image_history, viewer_current_image)
                ELSE Append(Tail(image_history), viewer_current_image) ]_vars

\* an edit ran on a full history: the oldest snapshot is gone and the image
\* the edit started from is the newest
C16_Witness ==
  /\ SuccessfulEdit(viewer_last)
  /\ Len(image_history) = 20
  /\ image_history[1] # viewer_original_image
  /\ image_history[20] = viewer_last.before
  /\ image_history[20] # viewer_current_image
  /\ Len(trail) = 20

\* C17: undo sets the current image to the one that was current before the
\* latest successful edit not yet undone, so k undos after k successful edits
\* (k at most 20) restore the image before the first of them; with nothing
\* to undo it changes nothing.
C17_UndoRestoresPreEditImage ==
  [][ (viewer_last'.op = "undo_last_action" /\ ~UNCHANGED viewer_vars)
      => IF trail # <<>>
         THEN viewer_current_image' = trail[Len(trail)]
         ELSE UNCHANGED <<viewer_current_image, image_history>> ]_vars

\* C18: a failed edit leaves the current image and the whole undo history as
\* they were before the call.
C18_FailedEditRollsBack ==
  [][ (EditStep /\ viewer_last'.failed)
      => UNCHANGED <<viewer_current_image, image_history>> ]_vars

\* r turned counter-clockwise by q quarters
RECURSIVE QuarterTurns(_, _)
QuarterTurns(r, q) == IF q = 0 THEN r ELSE rot90(QuarterTurns(r, q - 1), 1)

\* C19: rotate_image succeeds for every angle that is a multiple of 90
\* modulo 360 (360, -360, 450 and -90 included) and returns the raster
\* rotated by the angle modulo 360; for every other angle it raises.
C19_AngleNormalizedModulo360 ==
  probe.steps = 1
    => IF (probe.angle % 360) \in {0, 90, 180, 270}
       THEN probe.out = QuarterTurns(probe.image, (probe.angle % 360) \div 90)
       ELSE IsRaised(probe.out)

\* C20: four successive rotations by 90 return the raster they started from,
\* in shape and in every sample.
C20_FourQuarterTurnsAreIdentity ==
  (probe.angle = 90 /\ probe.steps = 4)
    => /\ probe.out = probe.image
       /\ Height(probe.out) = Height(probe.image)
       /\ Width(probe.out) = Width(probe.image)

\* a 2 x 3 colour raster went through four quarter turns
C20_Witness ==
  /\ probe.angle = 90 /\ probe.steps = 4
  /\ probe.image.ndim = 3
  /\ Height(probe.image) = 2 /\ Width(probe.image) = 3
  /\ probe.out = probe.image

\* the sum of the counts of the bins lo..hi of a distribution
RECURSIVE SumBins(_, _, _)
SumBins(h, lo, hi) ==
  IF lo = hi THEN h[lo]
  ELSE LET mid == (lo + hi) \div 2
       IN  SumBins(h, lo, mid) + SumBins(h, mid + 1, hi)

\* a distribution of 256 bins whose counts sum to the number of pixels of r
FullDistribution(h, r) ==
  /\ DOMAIN h = 0..255
  /\ SumBins(h, 0, 255) = Width(r) * Height(r)

\* C21: every distribution calculate_histogram returns (the grayscale one of
\* a 2-D raster, the red, green and blue ones otherwise) has 256 bins whose
\* counts sum to width times height.
C21_HistogramCountsSumToPixels ==
  (probe.steps = 1 /\ ~probe.out.raised)
    => IF probe.image.ndim = 2
       THEN /\ FullDistribution(probe.out.grayscale, probe.image)
            /\ probe.out.red_channel = <<>>
       ELSE /\ FullDistribution(probe.out.red_channel, probe.image)
            /\ FullDistribution(probe.out.green_channel, probe.image)
            /\ FullDistribution(probe.out.blue_channel, probe.image)
            /\ probe.out.grayscale = <<>>

\* the histogram of a 2 x 2 raster with an alpha channel was calculated and
\* counts samples in the bin of 255 and in other bins
C21_Witness ==
  /\ probe.steps = 1 /\ ~probe.out.raised
  /\ probe.image.ndim = 3 /\ Channels(probe.image) = 4
  /\ Height(probe.image) = 2 /\ Width(probe.image) = 2
  /\ probe.out.red_channel # <<>>
  /\ \E k \in 0..254 : probe.out.red_channel[k] > 0

\* the number of channels of a raster: one for a 2-D array
ChannelCount(r) == IF r.ndim = 2 THEN 1 ELSE Channels(r)

\* C22: calculate_histogram raises for every raster whose channel count is
\* outside {1, 3, 4} and returns a histogram for 1, 3 and 4 channels.
C22_UnsupportedChannelCountsRaise ==
  probe.steps = 1
    => (probe.out.raised <=> ChannelCount(probe.image) \notin {1, 3, 4})

\* a is nowhere greater than b
NowhereGreater(a, b) ==
  \A i \in 1..Rows(b) : \A j \in 1..Cols(b) : a[i][j] <= b[i][j]

\* C23: the opening of a grayscale raster by a structuring element with its
\* default anchor is, at every pixel, not greater than the raster.
C23_OpeningIsAntiExtensive ==
  probe.steps = 1
    => /\ ~IsRaisedData(probe.out)
       /\ NowhereGreater(probe.out, probe.image)

\* C24: after any sequence of successful apply_processing_parameters calls
\* from a start state, the current image and the base are those a single call
\* with the final parameter set produces from that start state.
C24_CurrentDependsOnlyOnFinalParameters ==
  (probe.steps = 1 /\ last.op = "apply_processing_parameters" /\ last.ret = TRUE)
    => LET one == apply_processing_parameters(probe.image,
                                              current_processing_params, "none")
       IN  one.ret = TRUE
             => /\ current_image.current_data = one.st.current_image.current_data
                /\ base_image_data = one.st.base_image_data

\* C25: while the grayscale flag is set, a successful apply_processing_parameters
\* call skips the saturation stage: its result is the one the same call gives
\* with saturation 1.0.
C25_SaturationSkippedWhileGray ==
  [][(is_gray /\ last'.op = "apply_processing_parameters" /\ last'.ret = TRUE)
       => current_image'.current_data =
            apply_processing_parameters(
              State, [current_processing_params' EXCEPT !.saturation = 10],
              "none").st.current_image.current_data]_vars

\* C26: whenever the grayscale flag is set, the current raster of the loaded
\* image is single-channel (2-D).
C26_GrayFlagMeansTwoDimensionalCurrent ==
  (current_image # NoImage /\ is_gray) => current_image.current_data.ndim = 2

\* the rotation transitions out of the current state: each call that changes
\* only the rotation, to any value of {0, 90, 180, 270}, succeeds and turns
\* the base by (new - old) mod 360
RotationTransitionsTurnBase ==
  Loaded =>
    \A rotation \in Rotations :
      LET r == apply_processing_parameters(
                 State, [current_processing_params EXCEPT !.rotation = rotation],
                 "none")
      IN  /\ r.ret = TRUE
          /\ r.st.base_image_data =
               QuarterTurns(base_image_data,
                            ((rotation - current_processing_params.rotation) % 360)
                              \div 90)

\* the rotation is back at 0 after quarter turns from the remembered state
FullTurnDone ==
  /\ probe.steps = 1
  /\ last.op = "apply_processing_parameters"
  /\ last.ret = TRUE
  /\ current_processing_params.rotation = 0

\* C27: every rotation transition within {0, 90, 180, 270} succeeds and turns
\* the base by the difference modulo 360, and the calls with rotation 90, 180,
\* 270, 0 leave base and current as they were before the first of them.
C27_RotationTransitionsAndFullTurn ==
  /\ RotationTransitionsTurnBase
  /\ FullTurnDone
       => /\ base_image_data = probe.image.base_image_data
          /\ current_image.current_data = probe.image.current_image.current_data

C29_DefaultAnchorInsideKernel ==
  probe.steps = 1
    => /\ probe.out.anchor = <<Cols(probe.kernel) \div 2, Rows(probe.kernel) \div 2>>
       /\ 0 <= probe.out.anchor[1] /\ probe.out.anchor[1] < Cols(probe.kernel)
       /\ 0 <= probe.out.anchor[2] /\ probe.out.anchor[2] < Rows(probe.kernel)

\* C30: while no image is loaded, every operation other than load_image
\* reports failure and leaves the service without image and base raster, with
\* the identity parameters and the grayscale flag cleared.
C30_NothingWorksWithoutImage ==
  [][(~Loaded /\ last'.op # "load_image")
       => /\ last'.ret = FALSE
          /\ current_image' = NoImage
          /\ base_image_data' = None
          /\ current_processing_params' = DefaultParams
          /\ is_gray' = FALSE]_vars

\* a tonal correction was called with no image loaded
C30_Witness ==
  /\ ~Loaded
  /\ last.op = "apply_gamma_correction"
  /\ last.ret = FALSE
  /\ base_image_data = None

====
